---- MODULE Spec2Model ----
(***************************************************************************)
(* A model of the content-recommendation template filler (src/app.py):    *)
(* whitespace normalisation, the signposted-line extraction over a DOM,    *)
(* the exclude-selector loop of process_url, the DOCX placeholder filling  *)
(* and the batch loop over the CSV rows.                                   *)
(*                                                                         *)
(* Strings are sequences of one-character strings, so that replace, strip, *)
(* split and substring search are computed character by character.         *)
(***************************************************************************)
EXTENDS Integers, Sequences, FiniteSets, TLC

VARIABLES
    pc,         \* position of the running operation
    s,          \* normalise: the current string
    hist,       \* normalise: the arguments of the calls made so far
    body,       \* extraction / process_url: the children of <body>
    annotate_links, \* extraction option
    idx,        \* extraction: index of the next child of body to handle
    lines,      \* extraction: the list `lines` of extract_signposted_lines_from_body
    result,     \* extraction: the returned (deduplicated) list
    page,       \* process_url: the document the URL serves
    selectors,  \* process_url: exclude_selectors
    sel_i,      \* process_url: index of the next selector of the loop
    ret,        \* process_url: what the call returned or raised
    template_bytes, \* build_docx: the template document
    doc,        \* build_docx: the Document being filled
    meta,       \* build_docx: the Meta mapping
    out,        \* build_docx: the returned document or the raised error
    csv_file,   \* batch: the uploaded CSV, a header and the records after it
    rows,       \* batch: list(csv.DictReader(...))
    row_i,      \* batch: index of the next row of the loop
    results,    \* batch: the list `results`
    zf          \* batch: the names written to the zip file

normVars == <<s, hist>>
extractVars == <<idx, lines, result>>
domVars == <<body, annotate_links>>
urlVars == <<page, selectors, sel_i, ret>>
docxVars == <<template_bytes, doc, meta, out>>
batchVars == <<csv_file, rows, row_i, results, zf>>

vars == <<pc, normVars, extractVars, domVars, urlVars, docxVars, batchVars>>

-----------------------------------------------------------------------------
(* Characters *)

SP == " "
TAB == "\t"
CR == "\r"
LF == "\n"
NBSP == "nbsp"   \* the single character U+00A0

Horizontal == {SP, TAB}              \* the regex class [ \t]
PyWhitespace == {SP, TAB, CR, LF, NBSP}  \* what str.strip() removes

-----------------------------------------------------------------------------
(* Bounds *)

MaxStrLen == 4    \* normalise: length of the input string
MaxItems == 2     \* lists: number of <li> of the outer list
MaxSub == 2       \* lists: number of <li> of a nested list
MaxBlocks == 2    \* number of children of <body> in a mixed document
MaxRun == 4       \* number of children of <body> in a run of simple blocks
MaxPageBlocks == 2  \* process_url: number of children of <body> of a page
MaxSelectors == 3   \* process_url: length of exclude_selectors
MaxParas == 2       \* docx: paragraphs of the body and of a table cell
MaxLines == 3       \* docx: length of the line sequence
MaxRows == 2        \* batch: number of records of the CSV

-----------------------------------------------------------------------------
(* Generic string helpers (Python str semantics) *)

RECURSIVE Concat(_)
\* "".join(parts)
Concat(parts) ==
    IF parts = <<>> THEN <<>> ELSE Head(parts) \o Concat(Tail(parts))

RECURSIVE LStrip(_)
LStrip(t) ==
    IF t # <<>> /\ Head(t) \in PyWhitespace THEN LStrip(Tail(t)) ELSE t

RECURSIVE RStrip(_)
RStrip(t) ==
    IF t # <<>> /\ t[Len(t)] \in PyWhitespace
    THEN RStrip(SubSeq(t, 1, Len(t) - 1)) ELSE t

\* str.strip()
Strip(t) == RStrip(LStrip(t))

RECURSIVE SplitAcc(_, _, _)
SplitAcc(t, sep, cur) ==
    IF t = <<>> THEN <<cur>>
    ELSE IF Head(t) = sep THEN <<cur>> \o SplitAcc(Tail(t), sep, <<>>)
    ELSE SplitAcc(Tail(t), sep, Append(cur, Head(t)))

\* str.split(sep) for a one-character separator: empty segments are kept
Split(t, sep) == SplitAcc(t, sep, <<>>)

\* k in t
StartsWith(t, k) == Len(k) <= Len(t) /\ SubSeq(t, 1, Len(k)) = k

RECURSIVE Contains(_, _)
Contains(t, k) ==
    IF Len(k) > Len(t) THEN FALSE
    ELSE StartsWith(t, k) \/ Contains(Tail(t), k)

RECURSIVE Replace(_, _, _)
\* str.replace(k, v): leftmost non-overlapping occurrences, k non-empty
Replace(t, k, v) ==
    IF Len(k) > Len(t) THEN t
    ELSE IF StartsWith(t, k) THEN v \o Replace(SubSeq(t, Len(k) + 1, Len(t)), k, v)
    ELSE <<Head(t)>> \o Replace(Tail(t), k, v)

-----------------------------------------------------------------------------
(* normalise_keep_newlines *)

RECURSIVE DropHorizontal(_)
DropHorizontal(t) ==
    IF t # <<>> /\ Head(t) \in Horizontal THEN DropHorizontal(Tail(t)) ELSE t

RECURSIVE CollapseHorizontal(_)
\* re.sub(r"[ \t]+", " ", s)
CollapseHorizontal(t) ==
    IF t = <<>> THEN <<>>
    ELSE IF Head(t) \in Horizontal
         THEN <<SP>> \o CollapseHorizontal(DropHorizontal(t))
         ELSE <<Head(t)>> \o CollapseHorizontal(Tail(t))

RECURSIVE TrimAroundNewlines(_)
\* re.sub(r"[ \t]*\n[ \t]*", "\n", s)
TrimAroundNewlines(t) ==
    IF t = <<>> THEN <<>>
    ELSE LET rest == DropHorizontal(t)
             run == SubSeq(t, 1, Len(t) - Len(rest))
         IN IF rest # <<>> /\ Head(rest) = LF
            THEN <<LF>> \o TrimAroundNewlines(DropHorizontal(Tail(rest)))
            ELSE IF run # <<>> THEN run \o TrimAroundNewlines(rest)
            ELSE <<Head(t)>> \o TrimAroundNewlines(Tail(t))

\* line 61: s.replace("\r\n", "\n").replace("\r", "\n").replace("\xa0", " ")
NormaliseEndings(t) ==
    Replace(Replace(Replace(t, <<CR, LF>>, <<LF>>), <<CR>>, <<LF>>), <<NBSP>>, <<SP>>)

\* a slip in the order of the steps: the non-breaking spaces are replaced last
normalise_nbsp_last(t) ==
    Replace(TrimAroundNewlines(CollapseHorizontal(
        Replace(Replace(t, <<CR, LF>>, <<LF>>), <<CR>>, <<LF>>))), <<NBSP>>, <<SP>>)

normalise_keep_newlines(t) ==
    TrimAroundNewlines(CollapseHorizontal(NormaliseEndings(t)))

-----------------------------------------------------------------------------
(* The DOM: a node is a text node (name "#text") or an element with an      *)
(* ordered list of children; href is the anchor's attribute ("" if absent). *)

ARROW == "arrow"   \* the single character U+2192 of the link annotation

ALWAYS_STRIP == {"script", "style", "noscript", "template"}
Headings == {"h1", "h2", "h3", "h4", "h5", "h6"}

Txt(t) == [name |-> "#text", text |-> t, href |-> <<>>, kids |-> <<>>]
El(n, kids) == [name |-> n, text |-> <<>>, href |-> <<>>, kids |-> kids]
Anchor(h, kids) == [name |-> "a", text |-> <<>>, href |-> h, kids |-> kids]

IsTag(node) == node.name # "#text"

\* tag.find_all(names, recursive=False): the direct children with these names
DirectChildren(tag, names) == SelectSeq(tag.kids, LAMBDA k : k.name \in names)

RECURSIVE AllStrings(_)
\* the text nodes below a tag, in document order (Tag._all_strings)
AllStrings(kids) ==
    IF kids = <<>> THEN <<>>
    ELSE (IF IsTag(Head(kids)) THEN AllStrings(Head(kids).kids)
          ELSE <<Head(kids).text>>) \o AllStrings(Tail(kids))

RECURSIVE JoinWith(_, _)
JoinWith(parts, sep) ==
    IF parts = <<>> THEN <<>>
    ELSE IF Len(parts) = 1 THEN Head(parts)
    ELSE Head(parts) \o sep \o JoinWith(Tail(parts), sep)

\* a.get_text(" ", strip=True): stripped non-empty strings joined by a space
GetTextStripped(tag) ==
    JoinWith(SelectSeq([i \in 1..Len(AllStrings(tag.kids)) |->
                            Strip(AllStrings(tag.kids)[i])],
                       LAMBDA x : x # <<>>), <<SP>>)

annotate_anchor_text(a, annotate) ==
    IF annotate /\ a.href # <<>>
    THEN GetTextStripped(a) \o <<SP, "(", ARROW, SP>> \o a.href \o <<")">>
    ELSE GetTextStripped(a)

RECURSIVE extract_text_preserve_breaks(_, _)
RECURSIVE ExtractParts(_, _)
\* the loop of lines 77-86 followed by "".join(parts)
ExtractParts(kids, annotate) ==
    IF kids = <<>> THEN <<>>
    ELSE LET child == Head(kids)
             part == IF ~IsTag(child) THEN child.text
                     ELSE IF child.name = "br" THEN <<LF>>
                     ELSE IF child.name = "a" THEN annotate_anchor_text(child, annotate)
                     ELSE extract_text_preserve_breaks(child, annotate)
         IN part \o ExtractParts(Tail(kids), annotate)

extract_text_preserve_breaks(node, annotate) ==
    IF ~IsTag(node) THEN node.text ELSE ExtractParts(node.kids, annotate)

-----------------------------------------------------------------------------
(* extract_signposted_lines_from_body *)

\* f"<{tag_name}> {seg_stripped}" and the bare "<p>"
Signpost(tag_name, seg) == <<"<", tag_name, ">", SP>> \o seg
BlankParagraph == <<"<", "p", ">">>

RECURSIVE EmitSegmentsNoBlank(_, _)
\* a slip: blank segments are dropped for paragraphs as they are for headings
EmitSegmentsNoBlank(tag_name, segments) ==
    IF segments = <<>> THEN <<>>
    ELSE LET seg_stripped == Strip(Head(segments))
         IN (IF seg_stripped # <<>> THEN <<Signpost(tag_name, seg_stripped)>> ELSE <<>>)
            \o EmitSegmentsNoBlank(tag_name, Tail(segments))

RECURSIVE EmitSegments(_, _)
EmitSegments(tag_name, segments) ==
    IF segments = <<>> THEN <<>>
    ELSE LET seg_stripped == Strip(Head(segments))
         IN (IF seg_stripped # <<>> THEN <<Signpost(tag_name, seg_stripped)>>
             ELSE IF tag_name = "p" THEN <<BlankParagraph>>
             ELSE <<>>) \o EmitSegments(tag_name, Tail(segments))

\* emit_lines: the lines it appends, in order
emit_lines(tag_name, text) ==
    EmitSegments(tag_name, Split(normalise_keep_newlines(text), LF))

\* the lines of one list item: lines 128-130 / 134-136
ItemLines(li, annotate) ==
    LET txt == extract_text_preserve_breaks(li, annotate)
    IN IF Strip(txt) # <<>> THEN emit_lines("p", txt) ELSE <<>>

RECURSIVE ItemsLines(_, _)
ItemsLines(items, annotate) ==
    IF items = <<>> THEN <<>>
    ELSE ItemLines(Head(items), annotate) \o ItemsLines(Tail(items), annotate)

RECURSIVE SubListsLines(_, _)
\* lines 132-136: the direct <li> of each <ul>/<ol> directly inside an item
SubListsLines(subs, annotate) ==
    IF subs = <<>> THEN <<>>
    ELSE ItemsLines(DirectChildren(Head(subs), {"li"}), annotate)
         \o SubListsLines(Tail(subs), annotate)

RECURSIVE ListLines(_, _)
\* lines 127-136 over the direct <li> children of a list
ListLines(items, annotate) ==
    IF items = <<>> THEN <<>>
    ELSE ItemLines(Head(items), annotate)
         \o SubListsLines(DirectChildren(Head(items), {"ul", "ol"}), annotate)
         \o ListLines(Tail(items), annotate)

RECURSIVE handle(_, _)
RECURSIVE HandleChildren(_, _)
\* lines 141-143 (and 145-147): handle every child that is a Tag
HandleChildren(kids, annotate) ==
    IF kids = <<>> THEN <<>>
    ELSE (IF IsTag(Head(kids)) THEN handle(Head(kids), annotate) ELSE <<>>)
         \o HandleChildren(Tail(kids), annotate)

\* handle(tag): the lines it appends to `lines`, in order
handle(tag, annotate) ==
    IF tag.name \in ALWAYS_STRIP THEN <<>>
    ELSE LET txt == extract_text_preserve_breaks(tag, annotate)
             own == IF tag.name \in Headings
                    THEN (IF Strip(txt) # <<>> THEN emit_lines(tag.name, txt) ELSE <<>>)
                    ELSE IF tag.name = "p"
                    THEN (IF Strip(txt) # <<>> \/ Contains(txt, <<LF>>)
                          THEN emit_lines("p", txt) ELSE <<>>)
                    ELSE IF tag.name \in {"ul", "ol"}
                    THEN ListLines(DirectChildren(tag, {"li"}), annotate)
                    ELSE <<>>
         IN own \o HandleChildren(tag.kids, annotate)

RECURSIVE DedupFrom(_, _, _)
\* lines 150-154; `started` is FALSE while prev is None
DedupFrom(lns, prev, started) ==
    IF lns = <<>> THEN <<>>
    ELSE (IF started /\ Head(lns) = prev THEN <<>> ELSE <<Head(lns)>>)
         \o DedupFrom(Tail(lns), Head(lns), TRUE)

RECURSIVE DedupAll(_, _)
\* a slip: every later repeat of a line is dropped, adjacent or not
DedupAll(lns, seen) ==
    IF lns = <<>> THEN <<>>
    ELSE (IF Head(lns) \in seen THEN <<>> ELSE <<Head(lns)>>)
         \o DedupAll(Tail(lns), seen \cup {Head(lns)})

DedupAnywhere(lns) == DedupAll(lns, {})

Dedup(lns) == DedupFrom(lns, <<>>, FALSE)

extract_signposted_lines_from_body(kids, annotate) ==
    Dedup(HandleChildren(kids, annotate))

-----------------------------------------------------------------------------
(* Inputs *)

SeqsUpTo(S, lo, hi) == UNION {[1..n -> S] : n \in lo..hi}

NormChars == {SP, TAB, CR, LF, NBSP, "a"}
NormStrings == SeqsUpTo(NormChars, 0, MaxStrLen)

SortBy == <<"S", "o", "r", "t", " ", "b", "y">>
SORT_BY_WIDE == <<" ", "S", "O", "R", "T", " ", "\t", "B", "Y", " ">>

P(kids) == El("p", kids)
Span(t) == El("span", <<Txt(t)>>)
BR == El("br", <<>>)

\* <p><span>x</span><br><br><span>y</span></p>
BrBrPara(x, y) == P(<<Span(x), BR, BR, Span(y)>>)
SpanTexts == {<<"a">>, <<" ", "b">>}

\* <ul>/<ol> whose <li> hold a text and at most one directly nested list
Item(t, sub) == El("li", <<Txt(t)>> \o sub)
SubLists ==
    {<<>>} \cup {<<El("ul", [i \in 1..Len(ts) |-> Item(ts[i], <<>>)])>> :
                    ts \in SeqsUpTo({<<"C">>, <<"D">>}, 1, MaxSub)}
Items == {Item(t, sub) : t \in {<<"A">>, <<"B">>}, sub \in SubLists}
ListDocs == {<<El("ul", items)>> : items \in SeqsUpTo(Items, 1, MaxItems)}

MixedBlocks ==
    {P(<<Txt(SortBy)>>), P(<<Txt(SORT_BY_WIDE)>>), P(<<Txt(<<"a">>)>>),
     El("h2", <<Txt(SortBy)>>), El("h2", <<Txt(<<" ">>)>>),
     P(<<Anchor(<<"/", "x">>, <<Txt(<<" ", "a", " ">>)>>)>>),
     El("div", <<Txt(<<"a">>)>>), El("div", <<Span(<<"a">>)>>),
     El("div", <<Anchor(<<"/", "x">>, <<Txt(<<"a">>)>>)>>),
     El("div", <<Txt(<<"a">>), P(<<Txt(<<"b">>)>>), Txt(<<"c">>)>>),
     El("section", <<P(<<Txt(<<"a">>)>>)>>),
     El("script", <<Txt(<<"a">>)>>), Txt(<<"a">>)}
    \cup {BrBrPara(x, y) : x, y \in SpanTexts}
MixedDocs == SeqsUpTo(MixedBlocks, 1, MaxBlocks)

RunBlocks ==
    {P(<<Txt(<<"a">>)>>), P(<<Txt(<<"b">>)>>), El("h2", <<Txt(<<"a">>)>>), P(<<BR>>)}
RunDocs == SeqsUpTo(RunBlocks, 1, MaxRun)

BodyDocs == ListDocs \cup MixedDocs \cup RunDocs

-----------------------------------------------------------------------------
(* Specification of normalise_keep_newlines applied repeatedly *)

NormIdle == s = <<>> /\ hist = <<>>
ExtractIdle == idx = 0 /\ lines = <<>> /\ result = <<>>
DomIdle == body = <<>> /\ annotate_links = FALSE
UrlIdle == page = <<>> /\ selectors = <<>> /\ sel_i = 0 /\ ret = <<>>
DocxIdle == template_bytes = <<>> /\ doc = <<>> /\ meta = <<>> /\ out = <<>>
BatchIdle == csv_file = <<>> /\ rows = <<>> /\ row_i = 0 /\ results = <<>> /\ zf = <<>>

InitNorm ==
    /\ pc = "normalise"
    /\ s \in NormStrings
    /\ hist = <<>>
    /\ ExtractIdle /\ DomIdle /\ UrlIdle /\ DocxIdle /\ BatchIdle

\* s = normalise_keep_newlines(s)
Normalise ==
    /\ pc = "normalise"
    /\ Len(hist) < 2
    /\ hist' = Append(hist, s)
    /\ s' = normalise_keep_newlines(s)
    /\ UNCHANGED <<pc, extractVars, domVars, urlVars, docxVars, batchVars>>

NextNorm == Normalise

SpecNorm == InitNorm /\ [][NextNorm]_vars

-----------------------------------------------------------------------------
(* Specification of extract_signposted_lines_from_body *)

Init ==
    /\ pc = "traverse"
    /\ body \in BodyDocs
    /\ annotate_links \in BOOLEAN
    /\ idx = 1
    /\ lines = <<>>
    /\ result = <<>>
    /\ NormIdle /\ UrlIdle /\ DocxIdle /\ BatchIdle

\* one iteration of the loop of lines 145-147
HandleChild ==
    /\ pc = "traverse"
    /\ idx <= Len(body)
    /\ lines' = lines \o (IF IsTag(body[idx]) THEN handle(body[idx], annotate_links)
                          ELSE <<>>)
    /\ idx' = idx + 1
    /\ UNCHANGED <<pc, result, normVars, domVars, urlVars, docxVars, batchVars>>

\* lines 149-155: the deduplication pass and the return
DedupLines ==
    /\ pc = "traverse"
    /\ idx > Len(body)
    /\ result' = Dedup(lines)
    /\ pc' = "done"
    /\ UNCHANGED <<idx, lines, normVars, domVars, urlVars, docxVars, batchVars>>

Next == HandleChild \/ DedupLines

Spec == Init /\ [][Next]_vars

-----------------------------------------------------------------------------
(* Claims about normalise_keep_newlines *)

Chars(t) == {t[i] : i \in 1..Len(t)}

\* C5: whitespace normalisation is idempotent: the second of two successive
\* calls returns its argument (the result of the first call) unchanged.
C5_NormaliseIdempotent == Len(hist) = 2 => s = hist[2]

\* a string with a CR, a non-breaking space and a space next to a newline has
\* been normalised twice, and the first call changed it
C5_Witness ==
    /\ Len(hist) = 2
    /\ hist[1] # hist[2]
    /\ {CR, NBSP} \subseteq Chars(hist[1])
    /\ Contains(hist[1], <<SP, LF>>) /\ ~Contains(hist[2], <<SP, LF>>)
    /\ LF \in Chars(hist[2])

-----------------------------------------------------------------------------
(* Claims about extract_signposted_lines_from_body *)

\* the positions of `lns` that start a maximal run of equal adjacent lines
RunStarts(lns) == {i \in 1..Len(lns) : i = 1 \/ lns[i] # lns[i - 1]}

\* C2: the returned list is the emitted list with each maximal run of adjacent
\* identical lines collapsed to one occurrence: it holds exactly the first line
\* of each run, in order, so no two adjacent returned lines are equal and
\* repeats that are not adjacent are all kept.
C2_AdjacentDuplicatesCollapsed ==
    pc = "done" =>
        /\ Len(result) = Cardinality(RunStarts(lines))
        /\ \A i \in RunStarts(lines) :
               result[Cardinality({j \in RunStarts(lines) : j <= i})] = lines[i]
        /\ \A i \in 1..(Len(result) - 1) : result[i] # result[i + 1]

\* a run of equal adjacent lines was collapsed while a repeat further on was kept
C2_Witness ==
    /\ pc = "done"
    /\ Len(result) < Len(lines)
    /\ \E i, j \in 1..Len(result) : i + 1 < j /\ result[i] = result[j]

IsBrBrPara(node) == \E x, y \in SpanTexts : node = BrBrPara(x, y)

\* C7: a <p> made of two non-empty spans separated by exactly <br><br> appends
\* exactly three Paragraph lines: the first span's text, an empty Paragraph
\* line, the second span's text.
C7_BrBrParagraphThreeLines ==
    [][(pc = "traverse" /\ idx <= Len(body) /\ IsBrBrPara(body[idx])) =>
         lines' = lines \o <<Signpost("p", Strip(body[idx].kids[1].kids[1].text)),
                             BlankParagraph,
                             Signpost("p", Strip(body[idx].kids[4].kids[1].text))>>]_vars

\* the extraction of a body holding only such a <p> has returned three lines,
\* the middle one blank
C7_Witness ==
    /\ pc = "done"
    /\ Len(body) = 1 /\ IsBrBrPara(body[1])
    /\ Len(result) = 3 /\ result[2] = BlankParagraph /\ result[1] # result[3]

\* the own text of a list item: its direct text nodes
OwnText(li) == Concat([i \in 1..Len(DirectChildren(li, {"#text"})) |->
                           DirectChildren(li, {"#text"})[i].text])

RECURSIVE ClaimedItemLines(_)
\* one Paragraph line per item, outer and nested, in document order
ClaimedItemLines(items) ==
    IF items = <<>> THEN <<>>
    ELSE <<Signpost("p", OwnText(Head(items)))>>
         \o ClaimedItemLines(Concat([i \in 1..Len(DirectChildren(Head(items), {"ul", "ol"})) |->
                DirectChildren(DirectChildren(Head(items), {"ul", "ol"})[i], {"li"})]))
         \o ClaimedItemLines(Tail(items))

Distinct(sq) == \A i, j \in 1..Len(sq) : i # j => sq[i] # sq[j]

\* C3: a list whose items may each hold one directly nested list yields exactly
\* one Paragraph line per item, in document order, each with the item's own
\* text only (stated for lists whose items have pairwise different texts, where
\* the deduplication pass removes nothing).
C3_OneLinePerListItem ==
    (pc = "done" /\ body \in ListDocs
        /\ Distinct(ClaimedItemLines(DirectChildren(body[1], {"li"}))))
    => result = ClaimedItemLines(DirectChildren(body[1], {"li"}))

Lower(c) ==
    CASE c = "S" -> "s" [] c = "O" -> "o" [] c = "R" -> "r" [] c = "T" -> "t"
      [] c = "B" -> "b" [] c = "Y" -> "y" [] OTHER -> c

LowerStr(t) == [i \in 1..Len(t) |-> Lower(t[i])]

\* a Paragraph line whose text is "Sort by" in any letter case
IsSortByParagraph(ln) ==
    /\ Len(ln) > 4
    /\ SubSeq(ln, 1, 4) = <<"<", "p", ">", SP>>
    /\ LowerStr(SubSeq(ln, 5, Len(ln))) = LowerStr(SortBy)

InSeq(x, sq) == \E i \in 1..Len(sq) : sq[i] = x

\* C6: no Paragraph line whose normalised text is "Sort by" (any case, any
\* horizontal whitespace) is in the output, while a heading with that text is
\* still emitted.
C6_SortByParagraphDropped ==
    pc = "done" =>
        /\ \A i \in 1..Len(result) : ~IsSortByParagraph(result[i])
        /\ InSeq(El("h2", <<Txt(SortBy)>>), body) => InSeq(Signpost("h2", SortBy), result)

InlineTags == {"a", "span", "strong", "em", "b", "i", "u", "s", "small", "sup",
               "sub", "mark", "abbr", "time", "code", "var", "kbd"}

Flush(buf) == IF Strip(buf) # <<>> THEN emit_lines("p", buf) ELSE <<>>

RECURSIVE ClaimedContainerLines(_, _, _)
\* the buffered inline text is flushed before each block child and after the
\* last child
ClaimedContainerLines(kids, buf, annotate) ==
    IF kids = <<>> THEN Flush(buf)
    ELSE LET child == Head(kids)
         IN IF ~IsTag(child)
            THEN ClaimedContainerLines(Tail(kids), buf \o child.text, annotate)
            ELSE IF child.name \in InlineTags
            THEN ClaimedContainerLines(Tail(kids),
                     buf \o ExtractParts(<<child>>, annotate), annotate)
            ELSE Flush(buf) \o handle(child, annotate)
                 \o ClaimedContainerLines(Tail(kids), <<>>, annotate)

\* C10: the non-blank text directly in a generic container, or in its inline
\* children, is emitted as Paragraph lines in document order with the lines of
\* its block children.
C10_ContainerInlineTextEmitted ==
    (pc = "done" /\ Len(body) = 1 /\ body[1].name \in {"div", "section"})
    => result = Dedup(ClaimedContainerLines(body[1].kids, <<>>, annotate_links))

-----------------------------------------------------------------------------
(* process_url *)

None == <<"None">>          \* Python's None (no string is this one-element list)
NA == <<"N", "/", "A">>     \* the sentinel "N/A"
Today == <<"0", "6", "/", "1", "1", "/", "2", "0", "2", "6">>  \* uk_today_str()
FallbackName == <<"P", "a", "g", "e">>  \* fallback_page_name_from_url(final_url)

\* a selector is a tag name, or a string the selector engine rejects
Selector(kind, arg) == [kind |-> kind, arg |-> arg]
SelectRaises(sel) == sel.kind = "malformed"
Matches(node, sel) == IsTag(node) /\ sel.kind = "tag" /\ node.name = sel.arg

RECURSIVE Decompose(_, _)
\* for el in body.select(sel): el.decompose()
\* every descendant that matches leaves the tree with its subtree
Decompose(kids, sel) ==
    IF kids = <<>> THEN <<>>
    ELSE LET child == Head(kids)
         IN (IF Matches(child, sel) THEN <<>>
             ELSE <<[child EXCEPT !.kids = Decompose(child.kids, sel)]>>)
            \o Decompose(Tail(kids), sel)

RECURSIVE DecomposeNamed(_, _)
\* lines 260-261: for el in soup.find_all(list(ALWAYS_STRIP)): el.decompose()
DecomposeNamed(kids, names) ==
    IF kids = <<>> THEN <<>>
    ELSE LET child == Head(kids)
         IN (IF IsTag(child) /\ child.name \in names THEN <<>>
             ELSE <<[child EXCEPT !.kids = DecomposeNamed(child.kids, names)]>>)
            \o DecomposeNamed(Tail(kids), names)

\* a missing try/except: the exception of a malformed selector propagates
ExcludeUncaught(kids, sel) ==
    IF SelectRaises(sel) THEN [raised |-> TRUE, kids |-> kids]
    ELSE [raised |-> FALSE, kids |-> Decompose(kids, sel)]

\* lines 267-271: one iteration of the loop; `except Exception: pass`
Exclude(kids, sel) ==
    IF SelectRaises(sel) THEN [raised |-> FALSE, kids |-> kids]
    ELSE [raised |-> FALSE, kids |-> Decompose(kids, sel)]

RECURSIVE FindFirst(_, _)
\* tag.find(name): the first descendant with this name, in document order,
\* as a list of at most one node (empty for None)
FindFirst(kids, n) ==
    IF kids = <<>> THEN <<>>
    ELSE IF Head(kids).name = n THEN <<Head(kids)>>
    ELSE LET below == FindFirst(Head(kids).kids, n)
         IN IF below # <<>> THEN below ELSE FindFirst(Tail(kids), n)

first_h1_text(kids) ==
    LET h1 == FindFirst(kids, "h1")
    IN IF h1 = <<>> THEN None
       ELSE LET txt == Strip(normalise_keep_newlines(
                           extract_text_preserve_breaks(h1[1], FALSE)))
            IN IF txt = <<>> THEN None ELSE txt

\* lines 277-293
BuildMeta(pg, kids) ==
    LET title == IF pg.title # None /\ pg.title # <<>> THEN Strip(pg.title) ELSE NA
        description == IF pg.description # None /\ pg.description # <<>>
                       THEN Strip(pg.description) ELSE NA
        h1 == first_h1_text(kids)
    IN [page |-> IF h1 # None /\ h1 # <<>> THEN h1 ELSE FallbackName,
        date |-> Today,
        url |-> pg.url,
        title |-> title,
        title_len |-> IF title # NA THEN Len(title) ELSE 0,
        description |-> description,
        description_len |-> IF description # NA THEN Len(description) ELSE 0]

Nav(kids) == El("nav", kids)
PageBlocks ==
    {Nav(<<P(<<Txt(<<"n">>)>>)>>),
     El("footer", <<P(<<Txt(<<"f">>)>>), Nav(<<>>)>>),
     El("div", <<Nav(<<P(<<Txt(<<"n">>)>>)>>), El("h1", <<Txt(<<"H">>)>>),
                 El("script", <<Txt(<<"x">>)>>)>>),
     El("div", <<El("header", <<El("footer", <<P(<<Txt(<<"f">>)>>)>>)>>), P(<<Txt(<<"a">>)>>)>>),
     P(<<Txt(<<"a">>)>>)}
Pages ==
    {[url |-> <<"u">>, title |-> <<" ", "T">>, description |-> None, kids |-> kids] :
        kids \in SeqsUpTo(PageBlocks, 1, MaxPageBlocks)}
Selectors ==
    {Selector("tag", "nav"), Selector("tag", "footer"), Selector("tag", "header"),
     Selector("malformed", "[[")}

InitUrl ==
    /\ pc = "fetch"
    /\ page \in Pages
    /\ selectors \in SeqsUpTo(Selectors, 0, MaxSelectors)
    /\ annotate_links = FALSE
    /\ body = <<>>
    /\ sel_i = 0
    /\ ret = <<>>
    /\ NormIdle /\ ExtractIdle /\ DocxIdle /\ BatchIdle

\* lines 256-263: the fetch succeeds; the page is parsed and globally stripped
FetchOk ==
    /\ pc = "fetch"
    /\ body' = DecomposeNamed(page.kids, ALWAYS_STRIP)
    /\ sel_i' = 1
    /\ pc' = "exclude"
    /\ UNCHANGED <<annotate_links, page, selectors, ret, normVars, extractVars, docxVars, batchVars>>

\* line 256: requests.get or raise_for_status raises
FetchRaises ==
    /\ pc = "fetch"
    /\ pc' = "raised"
    /\ ret' = [raised |-> "FetchError"]
    /\ UNCHANGED <<domVars, page, selectors, sel_i, normVars, extractVars, docxVars, batchVars>>

\* lines 266-271: one iteration of the loop over exclude_selectors
ExcludeSelector ==
    /\ pc = "exclude"
    /\ sel_i <= Len(selectors)
    /\ LET r == Exclude(body, selectors[sel_i])
       IN IF r.raised
          THEN pc' = "raised" /\ ret' = [raised |-> "SelectorError"]
               /\ UNCHANGED <<body, sel_i>>
          ELSE body' = r.kids /\ sel_i' = sel_i + 1 /\ UNCHANGED <<pc, ret>>
    /\ UNCHANGED <<annotate_links, page, selectors, normVars, extractVars, docxVars, batchVars>>

\* lines 274-294: extraction, meta, return
ExtractAndReturn ==
    /\ pc = "exclude"
    /\ sel_i > Len(selectors)
    /\ ret' = [meta |-> BuildMeta(page, body),
               lines |-> extract_signposted_lines_from_body(body, annotate_links)]
    /\ pc' = "returned"
    /\ UNCHANGED <<domVars, page, selectors, sel_i, normVars, extractVars, docxVars, batchVars>>

NextUrl == FetchOk \/ FetchRaises \/ ExcludeSelector \/ ExtractAndReturn

SpecUrl == InitUrl /\ [][NextUrl]_vars

RECURSIVE Descendants(_)
\* the elements below, as a set
Descendants(kids) ==
    IF kids = <<>> THEN {}
    ELSE {Head(kids)} \cup Descendants(Head(kids).kids) \cup Descendants(Tail(kids))

ValidSelectors == {selectors[i] : i \in {j \in 1..Len(selectors) : ~SelectRaises(selectors[j])}}

RECURSIVE Prune(_, _)
\* the tree without the subtrees whose root matches one of the selectors
Prune(kids, sels) ==
    IF kids = <<>> THEN <<>>
    ELSE (IF \E sel \in sels : Matches(Head(kids), sel) THEN <<>>
          ELSE <<[Head(kids) EXCEPT !.kids = Prune(Head(kids).kids, sels)]>>)
         \o Prune(Tail(kids), sels)

\* C8: a malformed selector is skipped without aborting: a call whose fetch
\* succeeded never raises, and when it returns every well-formed selector of the
\* list, before or after a malformed one, has been applied (the body is the
\* page's without the always-strip tags and without every subtree matching a
\* well-formed selector) and the result is the full (meta, lines) pair.
C8_MalformedSelectorSkipped ==
    /\ pc = "raised" => ret = [raised |-> "FetchError"]
    /\ pc = "returned" =>
        /\ body = Prune(DecomposeNamed(page.kids, ALWAYS_STRIP), ValidSelectors)
        /\ \A n \in Descendants(body) : \A sel \in ValidSelectors : ~Matches(n, sel)
        /\ DOMAIN ret = {"meta", "lines"}
        /\ ret.lines = extract_signposted_lines_from_body(body, annotate_links)

\* a call returned whose list has a malformed selector between two well-formed
\* ones that both removed something
C8_Witness ==
    /\ pc = "returned"
    /\ Len(selectors) = 3
    /\ SelectRaises(selectors[2])
    /\ ~SelectRaises(selectors[1]) /\ ~SelectRaises(selectors[3])
    /\ \E n \in Descendants(page.kids) : Matches(n, selectors[1])
    /\ \E n \in Descendants(Decompose(page.kids, selectors[1])) : Matches(n, selectors[3])
    /\ ret.lines # <<>>

-----------------------------------------------------------------------------
(* DOCX helpers.  A document is the list of the texts of its body paragraphs *)
(* and, for each table cell in iteration order, the list of the texts of the *)
(* cell's paragraphs.  A paragraph is addressed by (c, k): container c (0 is *)
(* the body, c > 0 the c-th cell) and index k in it.                         *)

PAGE_BODY_CONTENT == <<"[", "P", "A", "G", "E", " ", "B", "O", "D", "Y", " ", "C", "O", "N", "T", "E", "N", "T", "]">>
K_PAGE == <<"[", "P", "A", "G", "E", "]">>
K_DATE == <<"[", "D", "A", "T", "E", "]">>
K_URL == <<"[", "U", "R", "L", "]">>
K_TITLE == <<"[", "T", "I", "T", "L", "E", "]">>
K_TITLE_LENGTH == <<"[", "T", "I", "T", "L", "E", " ", "L", "E", "N", "G", "T", "H", "]">>
K_DESCRIPTION == <<"[", "D", "E", "S", "C", "R", "I", "P", "T", "I", "O", "N", "]">>
K_DESCRIPTION_BARE == <<"D", "E", "S", "C", "R", "I", "P", "T", "I", "O", "N">>
K_DESCRIPTION_LENGTH == <<"[", "D", "E", "S", "C", "R", "I", "P", "T", "I", "O", "N", " ", "L", "E", "N", "G", "T", "H", "]">>

Digit(n) == CASE n = 0 -> "0" [] n = 1 -> "1" [] n = 2 -> "2" [] n = 3 -> "3"
              [] n = 4 -> "4" [] n = 5 -> "5" [] n = 6 -> "6" [] n = 7 -> "7"
              [] n = 8 -> "8" [] n = 9 -> "9"

RECURSIVE IntToStr(_)
\* str(n) for n >= 0
IntToStr(n) == IF n < 10 THEN <<Digit(n)>> ELSE IntToStr(n \div 10) \o <<Digit(n % 10)>>

\* the mapping of lines 230-239, in the dict's insertion order
Mapping(m) ==
    <<<<K_PAGE, m.page>>, <<K_DATE, m.date>>, <<K_URL, m.url>>, <<K_TITLE, m.title>>,
      <<K_TITLE_LENGTH, IntToStr(m.title_len)>>, <<K_DESCRIPTION, m.description>>,
      <<K_DESCRIPTION_BARE, m.description>>,
      <<K_DESCRIPTION_LENGTH, IntToStr(m.description_len)>>>>

RECURSIVE InsertByLen(_, _)
\* insert after every entry whose key is at least as long: a stable sort
InsertByLen(sorted, e) ==
    IF sorted = <<>> THEN <<e>>
    ELSE IF Len(Head(sorted)[1]) >= Len(e[1]) THEN <<Head(sorted)>> \o InsertByLen(Tail(sorted), e)
    ELSE <<e>> \o sorted

RECURSIVE SortedByLen(_)
\* sorted(mapping.keys(), key=len, reverse=True), each key with its value
SortedByLen(mapping) ==
    IF mapping = <<>> THEN <<>>
    ELSE InsertByLen(SortedByLen(SubSeq(mapping, 1, Len(mapping) - 1)), mapping[Len(mapping)])

RECURSIVE ReplaceKeys(_, _)
\* lines 185-189 for one paragraph text
ReplaceKeys(t, keys) ==
    IF keys = <<>> THEN t
    ELSE ReplaceKeys(IF Contains(t, Head(keys)[1])
                     THEN Replace(t, Head(keys)[1], Head(keys)[2]) ELSE t, Tail(keys))

\* lines 181-195: every paragraph's text after the replacements
replace_placeholders_safe(d, mapping) ==
    LET keys == SortedByLen(mapping)
    IN [body |-> [k \in 1..Len(d.body) |-> ReplaceKeys(d.body[k], keys)],
        cells |-> [c \in 1..Len(d.cells) |->
                      [k \in 1..Len(d.cells[c]) |-> ReplaceKeys(d.cells[c][k], keys)]]]

iter_paragraphs_and_tables(d) ==
    [k \in 1..Len(d.body) |-> [c |-> 0, k |-> k]]
    \o Concat([c \in 1..Len(d.cells) |-> [k \in 1..Len(d.cells[c]) |-> [c |-> c, k |-> k]]])

Container(d, c) == IF c = 0 THEN d.body ELSE d.cells[c]
ParaText(d, para) == Container(d, para.c)[para.k]

WithContainer(d, c, paras) ==
    IF c = 0 THEN [d EXCEPT !.body = paras] ELSE [d EXCEPT !.cells[c] = paras]

RECURSIVE FirstWith(_, _, _)
FirstWith(d, paras, placeholder) ==
    IF paras = <<>> THEN <<>>
    ELSE IF Contains(ParaText(d, Head(paras)), placeholder) THEN <<Head(paras)>>
    ELSE FirstWith(d, Tail(paras), placeholder)

\* the first paragraph holding the placeholder, as a list of at most one
find_placeholder_paragraph(d, placeholder) ==
    FirstWith(d, iter_paragraphs_and_tables(d), placeholder)

\* target.clear(); target.add_run(text)
SetText(d, para, text) ==
    WithContainer(d, para.c, [Container(d, para.c) EXCEPT ![para.k] = text])

\* a slip: the anchor is not advanced to the new paragraph
insert_paragraph_keep_anchor(d, paragraph, text) ==
    LET paras == Container(d, paragraph.c)
    IN [doc |-> WithContainer(d, paragraph.c,
                    SubSeq(paras, 1, paragraph.k) \o <<text>>
                    \o SubSeq(paras, paragraph.k + 1, Len(paras))),
        new_para |-> paragraph]

\* the new paragraph is the next sibling of `paragraph`; it is returned
insert_paragraph_after(d, paragraph, text) ==
    LET paras == Container(d, paragraph.c)
    IN [doc |-> WithContainer(d, paragraph.c,
                    SubSeq(paras, 1, paragraph.k) \o <<text>>
                    \o SubSeq(paras, paragraph.k + 1, Len(paras))),
        new_para |-> [c |-> paragraph.c, k |-> paragraph.k + 1]]

RECURSIVE InsertRest(_, _, _)
\* lines 221-223
InsertRest(d, anchor, rest) ==
    IF rest = <<>> THEN d
    ELSE LET r == insert_paragraph_after(d, anchor, Head(rest))
         IN InsertRest(r.doc, r.new_para, Tail(rest))

NotFound(placeholder) ==
    [error |-> "ValueError",
     message |-> <<"Placeholder '">> \o placeholder \o <<"' not found in template.">>]

\* the document after the call, or the error it raises
replace_placeholder_with_lines(d, placeholder, lns) ==
    LET target == find_placeholder_paragraph(d, placeholder)
    IN IF target = <<>> THEN [raised |-> TRUE, error |-> NotFound(placeholder), doc |-> d]
       ELSE IF lns = <<>>
       THEN [raised |-> FALSE, error |-> <<>>, doc |-> SetText(d, target[1], <<>>)]
       ELSE [raised |-> FALSE, error |-> <<>>,
             doc |-> InsertRest(SetText(d, target[1], Head(lns)), target[1], Tail(lns))]

-----------------------------------------------------------------------------
(* Specifications of replace_placeholder_with_lines and of build_docx *)

T_INTRO == <<"I", "n", "t", "r", "o">>
T_INLINE == <<"S", "e", "e", " ">> \o PAGE_BODY_CONTENT
T_COUNTS == K_TITLE_LENGTH \o <<" ">> \o K_DESCRIPTION_BARE

DocLines == {Signpost("h1", <<"T">>), BlankParagraph}
LineSeqs == SeqsUpTo(DocLines, 0, MaxLines)

Docs(texts) ==
    {[body |-> b, cells |-> cs] :
        b \in SeqsUpTo(texts, 0, MaxParas),
        cs \in {<<>>} \cup {<<cell>> : cell \in SeqsUpTo(texts, 1, MaxParas)}}

FillDocs == Docs({T_INTRO, PAGE_BODY_CONTENT, T_INLINE})

Templates ==
    {[body |-> b, cells |-> cs] :
        b \in SeqsUpTo({T_INTRO, PAGE_BODY_CONTENT, K_TITLE, T_COUNTS}, 0, MaxParas),
        cs \in {<<>>, <<<<K_TITLE>>>>, <<<<PAGE_BODY_CONTENT>>>>}}

MetaOf(title, description) ==
    [page |-> <<"P", "g">>, date |-> Today, url |-> <<"u">>,
     title |-> title, title_len |-> IF title # NA THEN Len(title) ELSE 0,
     description |-> description,
     description_len |-> IF description # NA THEN Len(description) ELSE 0]

Metas ==
    {MetaOf(title, description) :
        title \in {<<"T">>, NA, PAGE_BODY_CONTENT}, description \in {NA, <<"D">>}}

InitFill ==
    /\ pc = "body"
    /\ doc \in FillDocs
    /\ template_bytes = doc
    /\ lines \in LineSeqs
    /\ meta = <<>> /\ out = <<>>
    /\ idx = 0 /\ result = <<>>
    /\ NormIdle /\ DomIdle /\ UrlIdle /\ BatchIdle

InitBuild ==
    /\ pc = "scalars"
    /\ template_bytes \in Templates
    /\ doc = template_bytes
    /\ meta \in Metas
    /\ lines \in LineSeqs
    /\ out = <<>>
    /\ idx = 0 /\ result = <<>>
    /\ NormIdle /\ DomIdle /\ UrlIdle /\ BatchIdle

\* lines 230-239
ReplaceScalars ==
    /\ pc = "scalars"
    /\ doc' = replace_placeholders_safe(doc, Mapping(meta))
    /\ pc' = "body"
    /\ UNCHANGED <<template_bytes, meta, out, normVars, extractVars, domVars, urlVars, batchVars>>

\* line 241, the placeholder is found: the lines take its place
ReplaceBodyFills ==
    /\ pc = "body"
    /\ ~replace_placeholder_with_lines(doc, PAGE_BODY_CONTENT, lines).raised
    /\ doc' = replace_placeholder_with_lines(doc, PAGE_BODY_CONTENT, lines).doc
    /\ pc' = "save"
    /\ UNCHANGED <<template_bytes, meta, out, normVars, extractVars, domVars, urlVars, batchVars>>

\* line 241, the placeholder is not found: ValueError leaves build_docx
ReplaceBodyRaises ==
    /\ pc = "body"
    /\ replace_placeholder_with_lines(doc, PAGE_BODY_CONTENT, lines).raised
    /\ out' = replace_placeholder_with_lines(doc, PAGE_BODY_CONTENT, lines).error
    /\ pc' = "raised"
    /\ UNCHANGED <<template_bytes, doc, meta, normVars, extractVars, domVars, urlVars, batchVars>>

\* lines 243-246
Save ==
    /\ pc = "save"
    /\ out' = doc
    /\ pc' = "returned"
    /\ UNCHANGED <<template_bytes, doc, meta, normVars, extractVars, domVars, urlVars, batchVars>>

NextFill == ReplaceBodyFills \/ ReplaceBodyRaises

SpecFill == InitFill /\ [][NextFill]_vars

NextBuild == ReplaceScalars \/ ReplaceBodyFills \/ ReplaceBodyRaises \/ Save

SpecBuild == InitBuild /\ [][NextBuild]_vars

\* the paragraphs holding the placeholder
Holders(d) ==
    {para \in [c : 0..Len(d.cells), k : 1..MaxParas + MaxLines] :
        /\ para.k <= Len(Container(d, para.c))
        /\ Contains(ParaText(d, para), PAGE_BODY_CONTENT)}

\* iteration order: the body first, then the cells in order
Before(a, b) == a.c < b.c \/ (a.c = b.c /\ a.k <= b.k)

\* C9: with the placeholder present and n >= 1 lines, the n lines stand as
\* consecutive paragraphs from the (first) placeholder paragraph's position, in
\* order, and every other paragraph keeps its content and relative order.
C9_LinesReplacePlaceholderInOrder ==
    [][(pc = "body" /\ Holders(doc) # {} /\ Len(lines) >= 1) =>
        LET target == CHOOSE a \in Holders(doc) : \A b \in Holders(doc) : Before(a, b)
            paras == Container(doc, target.c)
        IN /\ Container(doc', target.c) =
                  SubSeq(paras, 1, target.k - 1) \o lines
                  \o SubSeq(paras, target.k + 1, Len(paras))
           /\ Len(doc'.cells) = Len(doc.cells)
           /\ \A c \in 0..Len(doc.cells) :
                  c # target.c => Container(doc', c) = Container(doc, c)]_vars

\* three lines, the last two different, replaced a placeholder paragraph that
\* has a paragraph before it and one after it, in a document with a table cell
C9_Witness ==
    /\ pc = "save"
    /\ Len(lines) = 3 /\ lines[2] # lines[3]
    /\ Len(template_bytes.body) = 2 /\ template_bytes.cells # <<>>
    /\ template_bytes.body[1] = T_INTRO
    /\ Contains(template_bytes.body[2], PAGE_BODY_CONTENT)
    /\ doc.body = <<T_INTRO>> \o lines
    /\ doc.cells = template_bytes.cells

TemplateHasPlaceholder(d) ==
    \E i \in 1..Len(iter_paragraphs_and_tables(d)) :
        Contains(ParaText(d, iter_paragraphs_and_tables(d)[i]), PAGE_BODY_CONTENT)

\* C4: when no paragraph of the template (body or table cell) holds
\* '[PAGE BODY CONTENT]', build_docx fails with an error naming the token, for
\* every Meta mapping and line sequence: no filled document is produced.
C4_MissingPlaceholderRaises ==
    ~TemplateHasPlaceholder(template_bytes) =>
        /\ pc \notin {"save", "returned"}
        /\ pc = "raised" =>
               out.error = "ValueError" /\ Contains(out.message, PAGE_BODY_CONTENT)

-----------------------------------------------------------------------------
(* The batch loop of the "Batch (CSV)" tab *)

\* csv.DictReader: a record shorter than the header leaves the remaining
\* columns at restval (None)
DictRow(header, record) ==
    [col \in {header[i] : i \in 1..Len(header)} |->
        LET i == CHOOSE j \in 1..Len(header) :
                     header[j] = col /\ \A l \in (j + 1)..Len(header) : header[l] # col
        IN IF i <= Len(record) THEN record[i] ELSE None]

DictReader(file) == [i \in 1..Len(file.records) |-> DictRow(file.header, file.records[i])]

Headers == {<<"url">>, <<"url", "out_name">>, <<"out_name", "url">>, <<"name">>}
Fields == {<<"u">>, <<" ", "v", " ">>, <<>>}
CsvFiles ==
    {[header |-> h, records |-> rs] :
        h \in Headers,
        rs \in SeqsUpTo(SeqsUpTo(Fields, 1, 2), 0, MaxRows)}

\* what process_url and build_docx do for one row
Outcomes == {"ok", "FetchError", "TemplateError"}

DefaultName == <<"P", "g", " - Content Recommendations">>

\* line 475
OutName(row) ==
    Strip(IF "out_name" \in DOMAIN row /\ row["out_name"] # None /\ row["out_name"] # <<>>
          THEN row["out_name"] ELSE DefaultName)

InitBatch ==
    /\ pc = "run"
    /\ csv_file \in {f \in CsvFiles : \A i \in 1..Len(f.records) :
                        Len(f.records[i]) <= Len(f.header)}
    /\ rows = <<>> /\ row_i = 0 /\ results = <<>> /\ zf = <<>>
    /\ NormIdle /\ ExtractIdle /\ DomIdle /\ UrlIdle /\ DocxIdle

\* lines 462-464: the CSV has no record
BatchEmpty ==
    /\ pc = "run"
    /\ DictReader(csv_file) = <<>>
    /\ pc' = "error: CSV appears empty."
    /\ UNCHANGED <<batchVars, normVars, extractVars, domVars, urlVars, docxVars>>

\* lines 465-466
BatchNoUrlColumn ==
    /\ pc = "run"
    /\ DictReader(csv_file) # <<>>
    /\ "url" \notin DOMAIN DictReader(csv_file)[1]
    /\ pc' = "error: CSV must include a 'url' column."
    /\ UNCHANGED <<batchVars, normVars, extractVars, domVars, urlVars, docxVars>>

\* lines 462-470: the loop starts
BatchStart ==
    /\ pc = "run"
    /\ DictReader(csv_file) # <<>>
    /\ "url" \in DOMAIN DictReader(csv_file)[1]
    /\ rows' = DictReader(csv_file)
    /\ row_i' = 1
    /\ results' = <<>>
    /\ zf' = <<>>
    /\ pc' = "loop"
    /\ UNCHANGED <<csv_file, normVars, extractVars, domVars, urlVars, docxVars>>

\* line 472 raises outside the try: row["url"] is None, None has no strip()
RowUrlRaises ==
    /\ pc = "loop"
    /\ row_i <= Len(rows)
    /\ rows[row_i]["url"] = None
    /\ pc' = "aborted: AttributeError"
    /\ UNCHANGED <<batchVars, normVars, extractVars, domVars, urlVars, docxVars>>

\* lines 472-478: the row is processed and its document written
RowOk ==
    /\ pc = "loop"
    /\ row_i <= Len(rows)
    /\ rows[row_i]["url"] # None
    /\ zf' = Append(zf, OutName(rows[row_i]) \o <<".docx">>)
    /\ results' = Append(results, [url |-> Strip(rows[row_i]["url"]), status |-> "ok",
                                   file |-> OutName(rows[row_i]) \o <<".docx">>])
    /\ row_i' = row_i + 1
    /\ UNCHANGED <<pc, csv_file, rows, normVars, extractVars, domVars, urlVars, docxVars>>

\* lines 472-480: process_url or build_docx raises, the except clause records it
RowFails ==
    /\ pc = "loop"
    /\ row_i <= Len(rows)
    /\ rows[row_i]["url"] # None
    /\ \E e \in Outcomes \ {"ok"} :
           results' = Append(results, [url |-> Strip(rows[row_i]["url"]),
                                       status |-> "error: " \o e, file |-> <<>>])
    /\ row_i' = row_i + 1
    /\ UNCHANGED <<pc, csv_file, rows, zf, normVars, extractVars, domVars, urlVars, docxVars>>

\* lines 481-483
BatchComplete ==
    /\ pc = "loop"
    /\ row_i > Len(rows)
    /\ pc' = "Batch complete."
    /\ UNCHANGED <<batchVars, normVars, extractVars, domVars, urlVars, docxVars>>

NextBatch ==
    BatchEmpty \/ BatchNoUrlColumn \/ BatchStart \/ RowUrlRaises \/ RowOk \/ RowFails
    \/ BatchComplete

SpecBatch == InitBatch /\ [][NextBatch]_vars

\* C1: no failure on a row aborts the batch, reading the row's url included: the
\* loop is never left by an exception, and at 'Batch complete' the results hold
\* one status entry per row, in row order, 'ok' or an error status.
C1_BatchNeverAborts ==
    /\ pc # "aborted: AttributeError"
    /\ pc = "Batch complete." =>
        /\ Len(results) = Len(rows)
        /\ \A i \in 1..Len(rows) :
               /\ results[i].url = Strip(rows[i]["url"])
               /\ results[i].status \in {"ok"} \cup {"error: " \o e : e \in Outcomes \ {"ok"}}
               /\ results[i].status = "ok" <=> results[i].file # <<>>

====
